---- MODULE Spec2Model ----
(***************************************************************************)
(* Model of bub-backend/cache_manager.py: the two-tier CacheManager         *)
(* (Redis client + in-process memory_cache dictionary), its generic         *)
(* get/set/delete/clear_pattern primitives, the domain helpers for          *)
(* buildings, rooms and bookings, and cleanup_expired.                      *)
(*                                                                         *)
(* Strings are tokens; where the code inspects a string character by        *)
(* character (substring and glob matching, concatenation) the model works   *)
(* on Chars(s), the sequence of its characters.                             *)
(***************************************************************************)
EXTENDS Integers, Sequences, FiniteSets, TLC

VARIABLES
    redis_client,   \* self.redis_client is not None (fixed by __init__)
    redis_server,   \* the server behind redis_url: "none" (no URL was given),
                    \* "down" (unreachable since the constructor's ping) or "up"
    memory_cache,   \* self.memory_cache: key -> [data, expires_at]
    redis_store,    \* content of the Redis server: key -> [data, expires_at]
    now,            \* time.time(), in whole seconds
    written,        \* history: key -> the last set call that returned True
    nsets,          \* number of set calls that have written (at most MaxSets)
    last,           \* the last call made on the manager and what it returned
    frames,         \* thread -> the call it is executing and where it stands
    writes          \* history: every entry a set call has stored in a tier

vars == <<redis_client, redis_server, memory_cache, redis_store, now, written, nsets, last,
          frames, writes>>

(***************************************************************************)
(* Bounds of the model and constants of the program.                        *)
(***************************************************************************)
MaxTime == 601
MaxSets == 2
MaxItems == 2       \* items of a filter mapping given to _generate_key alone
MaxThreads == 2     \* request threads that call the manager at the same time

default_ttl == 300
BuildingsTTL == 600
RoomsTTL == 300
BookingsTTL == 60

\* The instants at which the clock is observed: the lifetimes of the domains,
\* one second before the shortest and one second after the longest.
ClockPoints == {t \in {0, 59, 60, 300, 600, 601} : t <= MaxTime}

None == "None"

(***************************************************************************)
(* Payloads and json.dumps / json.loads.                                    *)
(***************************************************************************)
PDict  == "{'name': 'Mugar'}"      \* a dict of strings
PTuple == "('a', 'b')"             \* a tuple: serialised as a JSON array
PList  == "['a', 'b']"             \* what json.loads gives back for PTuple
PSet   == "{'a'}"                  \* a Python set: json.dumps raises TypeError

Payloads == {PDict, PTuple, PSet}      \* payloads of direct set calls
HelperPayloads == {PDict}       \* payloads the domain helpers are given

Serializable(data) == data \in {PDict, PTuple, PList}

json_dumps(data) ==
    CASE data = PDict  -> "{\"name\": \"Mugar\"}"
      [] data = PTuple -> "[\"a\", \"b\"]"
      [] data = PList  -> "[\"a\", \"b\"]"

json_loads(text) ==
    CASE text = "{\"name\": \"Mugar\"}" -> PDict
      [] text = "[\"a\", \"b\"]"        -> PList

(***************************************************************************)
(* Character strings.                                                       *)
(***************************************************************************)
\* the text of a string, as the sequence of its characters
Chars(tok) ==
    CASE tok = "bulib:"                        -> <<"b","u","l","i","b",":">>
      [] tok = "buildings"                     -> <<"b","u","i","l","d","i","n","g","s">>
      [] tok = "rooms"                         -> <<"r","o","o","m","s">>
      [] tok = "bookings"                      -> <<"b","o","o","k","i","n","g","s">>
      [] tok = "building_id"                   -> <<"b","u","i","l","d","i","n","g","_","i","d">>
      [] tok = "mug"                           -> <<"m","u","g">>
      [] tok = "law"                           -> <<"l","a","w">>
      [] tok = ":"                             -> <<":">>
      [] tok = "*"                             -> <<"*">>
      [] tok = "x"                             -> <<"x">>
      [] tok = "1"                             -> <<"1">>
      [] tok = "99914b93"                      -> <<"9","9","9","1","4","b","9","3">>
      [] tok = "f91c9740"                      -> <<"f","9","1","c","9","7","4","0">>
      [] tok = "2b0f99f7"                      -> <<"2","b","0","f","9","9","f","7">>
      [] tok = "d3a9609f"                      -> <<"d","3","a","9","6","0","9","f">>
      [] tok = "a7742e99"                      -> <<"a","7","7","4","2","e","9","9">>
      [] tok = "e872199c"                      -> <<"e","8","7","2","1","9","9","c">>
      [] tok = "16b27c2d"                      -> <<"1","6","b","2","7","c","2","d">>
      [] tok = "ac694448"                      -> <<"a","c","6","9","4","4","4","8">>
      [] tok = "b12fbc1e"                      -> <<"b","1","2","f","b","c","1","e">>
      [] tok = "dd43715c"                      -> <<"d","d","4","3","7","1","5","c">>
      [] tok = "c6e42c87"                      -> <<"c","6","e","4","2","c","8","7">>
      [] tok = "972c57f5"                      -> <<"9","7","2","c","5","7","f","5">>
      [] tok = "floor"                         -> <<"f","l","o","o","r">>
      [] tok = "815d455f"                      -> <<"8","1","5","d","4","5","5","f">>
      [] tok = "ef7dbf05"                      -> <<"e","f","7","d","b","f","0","5">>
      [] tok = "9a5aef9d"                      -> <<"9","a","5","a","e","f","9","d">>
      [] tok = "d5a0f542"                      -> <<"d","5","a","0","f","5","4","2">>
      [] tok = "96527501"                      -> <<"9","6","5","2","7","5","0","1">>
      [] tok = "6e5ba276"                      -> <<"6","e","5","b","a","2","7","6">>
      [] tok = "bulib:buildings:99914b93"      -> <<"b","u","l","i","b",":","b","u","i","l","d","i","n","g","s",":","9","9","9","1","4","b","9","3">>
      [] tok = "bulib:rooms:2b0f99f7"          -> <<"b","u","l","i","b",":","r","o","o","m","s",":","2","b","0","f","9","9","f","7">>
      [] tok = "bulib:rooms:d3a9609f"          -> <<"b","u","l","i","b",":","r","o","o","m","s",":","d","3","a","9","6","0","9","f">>
      [] tok = "bulib:bookings:f91c9740"       -> <<"b","u","l","i","b",":","b","o","o","k","i","n","g","s",":","f","9","1","c","9","7","4","0">>
      [] tok = "xbulib:bookings:1"             -> <<"x","b","u","l","i","b",":","b","o","o","k","i","n","g","s",":","1">>
      [] tok = "bulib:bookings:*"              -> <<"b","u","l","i","b",":","b","o","o","k","i","n","g","s",":","*">>
      [] tok = "bulib:buildings:*"             -> <<"b","u","l","i","b",":","b","u","i","l","d","i","n","g","s",":","*">>
      [] tok = "bulib:rooms:*"                 -> <<"b","u","l","i","b",":","r","o","o","m","s",":","*">>
      [] tok = "bulib:rooms:*building_id*mug*" -> <<"b","u","l","i","b",":","r","o","o","m","s",":","*","b","u","i","l","d","i","n","g","_","i","d","*","m","u","g","*">>
      [] tok = "bulib:rooms:*building_id*law*" -> <<"b","u","l","i","b",":","r","o","o","m","s",":","*","b","u","i","l","d","i","n","g","_","i","d","*","l","a","w","*">>

\* the strings the model builds by concatenation
Texts ==
    {"bulib:buildings:99914b93", "bulib:rooms:2b0f99f7", "bulib:rooms:d3a9609f",
     "bulib:bookings:f91c9740", "xbulib:bookings:1",
     "bulib:bookings:*", "bulib:buildings:*", "bulib:rooms:*",
     "bulib:rooms:*building_id*mug*", "bulib:rooms:*building_id*law*"}

\* the string whose text is the character sequence cs
Str(cs) == CHOOSE tok \in Texts : Chars(tok) = cs

\* str.replace('*', '')
RECURSIVE RemoveStars(_)
RemoveStars(s) ==
    IF s = <<>> THEN <<>>
    ELSE IF Head(s) = "*" THEN RemoveStars(Tail(s))
    ELSE <<Head(s)>> \o RemoveStars(Tail(s))

\* needle in s
Contains(needle, s) ==
    \E i \in 1..(Len(s) - Len(needle) + 1) :
        SubSeq(s, i, i + Len(needle) - 1) = needle

\* Redis KEYS glob matching, for patterns made of literals and '*'
RECURSIVE GlobMatch(_, _)
GlobMatch(p, s) ==
    IF p = <<>> THEN s = <<>>
    ELSE IF Head(p) = "*"
         THEN \E i \in 0..Len(s) : GlobMatch(Tail(p), SubSeq(s, i + 1, Len(s)))
    ELSE s # <<>> /\ Head(s) = Head(p) /\ GlobMatch(Tail(p), Tail(s))

(***************************************************************************)
(* Filter mappings and key derivation.  A mapping is the sequence of its    *)
(* (name, value) items in insertion order, as a Python dict keeps them.     *)
(***************************************************************************)
DateItem == <<"date", "2024-01-01">>
FloorItem == <<"floor", "2">>
MugItem == <<"building_id", "mug">>

\* the filter mappings the callers pass to the helpers of each domain
BuildingFilterInputs == {<<>>}
RoomFilterInputs     == {<<>>}
BookingFilterInputs  == {<<DateItem>>}

FacilityIds == {"mug", "law"}

\* filters[name] = value: replaces the item in place, or appends it
dict_set(params, name, value) ==
    IF \E i \in 1..Len(params) : params[i][1] = name
    THEN [i \in 1..Len(params) |->
            IF params[i][1] = name THEN <<name, value>> ELSE params[i]]
    ELSE Append(params, <<name, value>>)

\* lexicographic rank of the item names in use
NameRank(name) ==
    CASE name = "building_id" -> 1 [] name = "date" -> 2 [] name = "floor" -> 3

\* a serialisation that writes the items in insertion order
InsertionOrder(params) == params

\* json.dumps(params, sort_keys=True): the items in the order of their names
RECURSIVE SortKeys(_)
SortKeys(params) ==
    IF params = <<>> THEN <<>>
    ELSE LET m == CHOOSE i \in 1..Len(params) :
                      \A j \in 1..Len(params) :
                          NameRank(params[i][1]) <= NameRank(params[j][1])
             rest == [i \in 1..(Len(params) - 1) |->
                          IF i < m THEN params[i] ELSE params[i + 1]]
         IN  <<params[m]>> \o SortKeys(rest)

\* hashlib.md5(text.encode()).hexdigest()[:8], tabulated for the texts in use:
\* the JSON object whose items are written in the order given
MD5Hex8(sorted_params) ==
    CASE sorted_params = <<>>                                     -> "99914b93"
      [] sorted_params = <<DateItem>>                             -> "f91c9740"
      [] sorted_params = <<(<<"building_id", "mug">>)>>           -> "2b0f99f7"
      [] sorted_params = <<(<<"building_id", "law">>)>>           -> "d3a9609f"
      [] sorted_params = <<(<<"building_id", "mug">>), DateItem>> -> "a7742e99"
      [] sorted_params = <<(<<"building_id", "law">>), DateItem>> -> "e872199c"
      [] sorted_params = <<FloorItem>>                            -> "16b27c2d"
      [] sorted_params = <<DateItem, FloorItem>>                  -> "ac694448"
      [] sorted_params = <<MugItem, FloorItem>>                   -> "972c57f5"
      [] sorted_params = <<DateItem, MugItem>>                    -> "b12fbc1e"
      [] sorted_params = <<FloorItem, DateItem>>                  -> "dd43715c"
      [] sorted_params = <<FloorItem, MugItem>>                   -> "c6e42c87"
      [] sorted_params = <<DateItem, FloorItem, MugItem>>           -> "815d455f"
      [] sorted_params = <<DateItem, MugItem, FloorItem>>           -> "ef7dbf05"
      [] sorted_params = <<FloorItem, DateItem, MugItem>>           -> "9a5aef9d"
      [] sorted_params = <<FloorItem, MugItem, DateItem>>           -> "d5a0f542"
      [] sorted_params = <<MugItem, DateItem, FloorItem>>           -> "96527501"
      [] sorted_params = <<MugItem, FloorItem, DateItem>>           -> "6e5ba276"

\* f"bulib:{prefix}:{param_hash}", as text
generate_key_chars(prefix, params) ==
    Chars("bulib:") \o Chars(prefix) \o Chars(":") \o Chars(MD5Hex8(SortKeys(params)))

\* CacheManager._generate_key
generate_key(prefix, params) == Str(generate_key_chars(prefix, params))

\* filters = filters or {}; filters['building_id'] = str(building_id)
RoomFilters(building_id, filters) == dict_set(filters, "building_id", building_id)

BuildingsKeys == {generate_key("buildings", f) : f \in BuildingFilterInputs}
RoomsKeys     == {generate_key("rooms", RoomFilters(b, f)) :
                      b \in FacilityIds, f \in RoomFilterInputs}
BookingsKeys  == {generate_key("bookings", f) : f \in BookingFilterInputs}

HelperKeys == BuildingsKeys \cup RoomsKeys \cup BookingsKeys

\* a key that a caller of the generic primitives chooses itself
RawKey == "xbulib:bookings:1"

Keys == HelperKeys \cup {RawKey}

(***************************************************************************)
(* Dictionaries.                                                            *)
(***************************************************************************)
Remove(d, ks) == [k \in DOMAIN d \ ks |-> d[k]]

Put(d, key, entry) == [k \in DOMAIN d \cup {key} |-> IF k = key THEN entry ELSE d[k]]

EmptyDict == [k \in {} |-> [data |-> None, expires_at |-> 0]]

\* a read that treats an entry as live at the very instant it expires
FreshInclusive(entry, t) == entry.expires_at >= t

\* entry['expires_at'] > time.time()
Fresh(entry, t) == entry.expires_at > t

\* Redis drops a key once its time to live has run out
RedisLive(store, t) == Remove(store, {k \in DOMAIN store : store[k].expires_at <= t})

(***************************************************************************)
(* Patterns of the invalidation helpers.                                    *)
(***************************************************************************)
BookingsPattern  == "bulib:bookings:*"
BuildingsPattern == "bulib:buildings:*"
AllRoomsPattern  == "bulib:rooms:*"

\* f"bulib:rooms:*building_id*{building_id}*" when building_id is truthy
RoomsPattern(building_id) ==
    IF building_id # None
    THEN Str(Chars("bulib:") \o Chars("rooms") \o Chars(":") \o Chars("*")
             \o Chars("building_id") \o Chars("*") \o Chars(building_id) \o Chars("*"))
    ELSE AllRoomsPattern

PatternInputs ==
    {BookingsPattern, BuildingsPattern, AllRoomsPattern}
        \cup {RoomsPattern(b) : b \in FacilityIds}

\* pattern.replace('*', '') in k, for each pattern and key in use
substring_match ==
    [p \in PatternInputs, k \in Keys |-> Contains(RemoveStars(Chars(p)), Chars(k))]

\* whether redis_client.keys(p) lists k, for each pattern and key in use
glob_match ==
    [p \in PatternInputs, k \in Keys |-> GlobMatch(Chars(p), Chars(k))]

(***************************************************************************)
(* The generic primitives.  Each takes the outcome of its Redis call as     *)
(* `fail` (the client raises: timeout, connection error) and gives the      *)
(* returned value with the two tiers as the call leaves them.               *)
(***************************************************************************)
\* a get that reports an expired Local entry as a Miss and leaves it in place
get_without_eviction(key, fail) ==
    LET live == RedisLive(redis_store, now) IN
    IF redis_client /\ fail
    THEN [ret |-> None, mem |-> memory_cache]
    ELSE IF redis_client /\ key \in DOMAIN live
    THEN [ret |-> json_loads(live[key].data), mem |-> memory_cache]
    ELSE IF key \in DOMAIN memory_cache /\ Fresh(memory_cache[key], now)
    THEN [ret |-> memory_cache[key].data, mem |-> memory_cache]
    ELSE [ret |-> None, mem |-> memory_cache]

\* a get that, on its way through the Local table, drops every expired entry
get_sweeps_expired(key, fail) ==
    LET live == RedisLive(redis_store, now)
        swept == Remove(memory_cache,
                        {k \in DOMAIN memory_cache : ~Fresh(memory_cache[k], now)})
    IN
    IF redis_client /\ fail
    THEN [ret |-> None, mem |-> memory_cache]
    ELSE IF redis_client /\ key \in DOMAIN live
    THEN [ret |-> json_loads(live[key].data), mem |-> memory_cache]
    ELSE IF key \in DOMAIN swept
    THEN [ret |-> memory_cache[key].data, mem |-> swept]
    ELSE [ret |-> None, mem |-> swept]

\* a get that goes on to the Local table when its Redis call raises
get_with_local_fallback(key, fail) ==
    LET live == RedisLive(redis_store, now) IN
    IF redis_client /\ ~fail /\ key \in DOMAIN live
    THEN [ret |-> json_loads(live[key].data), mem |-> memory_cache]
    ELSE IF key \in DOMAIN memory_cache
    THEN IF Fresh(memory_cache[key], now)
         THEN [ret |-> memory_cache[key].data, mem |-> memory_cache]
         ELSE [ret |-> None, mem |-> Remove(memory_cache, {key})]
    ELSE [ret |-> None, mem |-> memory_cache]

\* CacheManager.get
get(key, fail) ==
    LET live == RedisLive(redis_store, now) IN
    IF redis_client /\ fail
    THEN [ret |-> None, mem |-> memory_cache]          \* except: return None
    ELSE IF redis_client /\ key \in DOMAIN live
    THEN [ret |-> json_loads(live[key].data), mem |-> memory_cache]
    ELSE IF key \in DOMAIN memory_cache
    THEN IF Fresh(memory_cache[key], now)
         THEN [ret |-> memory_cache[key].data, mem |-> memory_cache]
         ELSE [ret |-> None, mem |-> Remove(memory_cache, {key})]
    ELSE [ret |-> None, mem |-> memory_cache]

\* ttl = ttl or self.default_ttl  (None and 0 are both falsy)
\* the ttl argument taken as it is given
ttl_as_given(ttl) == ttl

EffectiveTTL(ttl) == IF ttl = 0 THEN default_ttl ELSE ttl

\* a set that stores the Local entry before it serialises the payload
set_stores_before_dumps(key, data, ttl, fail) ==
    LET t == EffectiveTTL(ttl)
        stored == Put(memory_cache, key, [data |-> data, expires_at |-> now + t])
    IN
    IF ~Serializable(data)
    THEN [ok |-> FALSE, mem |-> stored, redis |-> redis_store]
    ELSE IF redis_client /\ fail
    THEN [ok |-> FALSE, mem |-> stored, redis |-> redis_store]
    ELSE [ok    |-> TRUE,
          mem   |-> stored,
          redis |-> IF redis_client
                    THEN Put(redis_store, key,
                             [data |-> json_dumps(data), expires_at |-> now + t])
                    ELSE redis_store]

\* a set that gives up when the manager has no Redis client
set_requires_redis(key, data, ttl, fail) ==
    LET t == EffectiveTTL(ttl) IN
    IF ~Serializable(data) \/ ~redis_client \/ fail
    THEN [ok |-> FALSE, mem |-> memory_cache, redis |-> redis_store]
    ELSE [ok    |-> TRUE,
          mem   |-> Put(memory_cache, key, [data |-> data, expires_at |-> now + t]),
          redis |-> Put(redis_store, key,
                        [data |-> json_dumps(data), expires_at |-> now + t])]

\* CacheManager.set
set(key, data, ttl, fail) ==
    LET t == EffectiveTTL(ttl) IN
    IF ~Serializable(data)
    THEN [ok |-> FALSE, mem |-> memory_cache, redis |-> redis_store]
    ELSE IF redis_client /\ fail
    THEN [ok |-> FALSE, mem |-> memory_cache, redis |-> redis_store]
    ELSE [ok    |-> TRUE,
          mem   |-> Put(memory_cache, key, [data |-> data, expires_at |-> now + t]),
          redis |-> IF redis_client
                    THEN Put(redis_store, key,
                             [data |-> json_dumps(data), expires_at |-> now + t])
                    ELSE redis_store]

\* CacheManager.delete
delete(key, fail) ==
    IF redis_client /\ fail
    THEN [ok |-> FALSE, mem |-> memory_cache, redis |-> redis_store]
    ELSE [ok    |-> TRUE,
          mem   |-> Remove(memory_cache, {key}),
          redis |-> IF redis_client THEN Remove(redis_store, {key}) ELSE redis_store]

\* a Local match on the application prefix of the pattern alone
memory_keys_with_app_prefix(pattern) ==
    {k \in DOMAIN memory_cache :
        Contains(SubSeq(RemoveStars(Chars(pattern)), 1, Len(Chars("bulib:"))), Chars(k))}

\* [k for k in self.memory_cache.keys() if pattern.replace('*', '') in k]
memory_keys_to_delete(pattern) ==
    {k \in DOMAIN memory_cache : substring_match[pattern, k]}

\* self.redis_client.keys(pattern)
redis_keys(pattern) ==
    {k \in DOMAIN RedisLive(redis_store, now) : glob_match[pattern, k]}

\* CacheManager.clear_pattern; fail is "none", "keys" or "delete"
clear_pattern(pattern, fail) ==
    LET keys   == redis_keys(pattern)
        raised == redis_client /\ (fail = "keys" \/ (fail = "delete" /\ keys # {}))
        local  == memory_keys_to_delete(pattern)
    IN  IF raised
        THEN [count |-> 0, mem |-> memory_cache, redis |-> redis_store]
        ELSE [count |-> (IF redis_client THEN Cardinality(keys) ELSE 0)
                          + Cardinality(local),
              mem   |-> Remove(memory_cache, local),
              redis |-> IF redis_client THEN Remove(redis_store, keys) ELSE redis_store]

\* the snapshot of a call that made no get_stats
NoStats ==
    [cache_type |-> None, memory_cache_size |-> 0, redis_connected |-> FALSE,
     redis_keys |-> 0, redis_error |-> FALSE]

\* a get_stats that counts the unexpired Local entries only
get_stats_counting_fresh(fail) ==
    LET local == [NoStats EXCEPT
                     !.cache_type = IF redis_client THEN "redis" ELSE "memory",
                     !.memory_cache_size =
                         Cardinality({k \in DOMAIN memory_cache :
                                         Fresh(memory_cache[k], now)})]
    IN  IF ~redis_client THEN local
        ELSE IF fail THEN [local EXCEPT !.redis_error = TRUE]
        ELSE [local EXCEPT !.redis_connected = TRUE,
                           !.redis_keys = Cardinality(DOMAIN RedisLive(redis_store, now))]

\* CacheManager.get_stats: the snapshot it returns; a key the code leaves out
\* of the dictionary is FALSE (redis_connected, redis_error) or 0 (redis_keys)
get_stats(fail) ==
    LET local == [NoStats EXCEPT
                     !.cache_type = IF redis_client THEN "redis" ELSE "memory",
                     !.memory_cache_size = Cardinality(DOMAIN memory_cache)]
    IN  IF ~redis_client THEN local
        ELSE IF fail THEN [local EXCEPT !.redis_error = TRUE]
        ELSE [local EXCEPT !.redis_connected = TRUE,
                           !.redis_keys = Cardinality(DOMAIN RedisLive(redis_store, now))]

\* CacheManager.cleanup_expired
\* a sweep that keeps an entry at the very instant of its expiry
expired_keys_after_instant ==
    {k \in DOMAIN memory_cache : memory_cache[k].expires_at < now}

expired_keys == {k \in DOMAIN memory_cache : memory_cache[k].expires_at <= now}

(***************************************************************************)
(* State machine.                                                           *)
(***************************************************************************)
BookingsTTLInputs == {BookingsTTL, 0}  \* ttl arguments of cache_bookings
SetTTLs == {0}                     \* ttl argument of a direct set call: omitted
FailChoices == IF redis_client THEN BOOLEAN ELSE {FALSE}
ClearFailChoices == IF redis_client THEN {"none", "keys", "delete"} ELSE {"none"}

\* A call on the manager: the primitive, its arguments, the outcome of its Redis
\* call, what it returned (ret of get, ok of set and delete, count of
\* clear_pattern and cleanup_expired, stats of get_stats) and whether it
\* changed a tier.
Call(op, key, data, ttl, fail, ret, ok, count, changed) ==
    [op |-> op, key |-> key, data |-> data, ttl |-> ttl, fail |-> fail,
     ret |-> ret, ok |-> ok, count |-> count, changed |-> changed,
     stats |-> NoStats]

\* A call that changed nothing is explored as the last call of a behaviour
\* only: it leaves every other variable as it was, so each state that can
\* follow it is reached without it.
Continues == last.changed \/ last.op \in {"init", "tick", "recover"} \/ (last.op = "set" /\ last.ok)

NoWrite == [k \in {} |-> [at |-> 0, ttl |-> 0, data |-> None]]

\* History kept beside the program: for each key that a tier still holds, the
\* set call that last returned True for it (when it was made, with which ttl
\* argument and payload).
Wrote(key, data, ttl) == Put(written, key, [at |-> now, ttl |-> ttl, data |-> data])

Held(w, mem, redis) == Remove(w, DOMAIN w \ (DOMAIN mem \cup DOMAIN redis))

\* The request threads of the server.  A frame is the call a thread is
\* executing: the primitive (op), the statement it stands before (pc), its
\* arguments (key holds the pattern of a clear_pattern) and its local
\* variables: entry (get), todo and count (clear_pattern: the keys still to
\* delete, deleted_count), size (the size of the dictionary when the list
\* comprehension of clear_pattern began).  kept is history: the keys listed by
\* clear_pattern that no other thread has written or removed since.
Threads == 1..MaxThreads

NoEntry == [data |-> None, expires_at |-> 0]

IdleFrame ==
    [op |-> "idle", pc |-> "idle", key |-> "", data |-> None, ttl |-> 0,
     entry |-> NoEntry, todo |-> {}, count |-> 0, size |-> 0, kept |-> {}]

\* CacheManager.__init__: with or without a connected Redis client
Init ==
    /\ redis_client \in BOOLEAN
    /\ redis_server \in IF redis_client THEN {"up"} ELSE {"none", "down"}
    /\ memory_cache = EmptyDict
    /\ redis_store = EmptyDict
    /\ now = 0
    /\ written = NoWrite
    /\ nsets = 0
    /\ last = Call("init", "", None, 0, "none", None, FALSE, 0, FALSE)
    /\ frames = [t \in Threads |-> IdleFrame]
    /\ writes = {}

DoGet(key, fail) ==
    \E r \in {get(key, fail)} :
        /\ memory_cache' = r.mem
        /\ written' = Held(written, r.mem, redis_store)
        /\ last' = Call("get", key, None, 0, IF fail THEN "get" ELSE "none",
                        r.ret, FALSE, 0, r.mem # memory_cache)
        /\ UNCHANGED <<redis_client, redis_server,
                       redis_store, now, nsets, frames, writes>>

DoSet(key, data, ttl, fail) ==
    \E r \in {set(key, data, ttl, fail)} :
        /\ nsets < MaxSets
        /\ memory_cache' = r.mem
        /\ redis_store' = r.redis
        /\ written' = IF r.ok THEN Wrote(key, data, ttl) ELSE written
        /\ nsets' = IF r.ok THEN nsets + 1 ELSE nsets
        /\ last' = Call("set", key, data, ttl, IF fail THEN "setex" ELSE "none",
                        None, r.ok, 0,
                        r.mem # memory_cache \/ r.redis # redis_store)
        /\ UNCHANGED <<redis_client, redis_server, now, frames, writes>>

DoDelete(key, fail) ==
    \E r \in {delete(key, fail)} :
        /\ memory_cache' = r.mem
        /\ redis_store' = r.redis
        /\ written' = Held(written, r.mem, r.redis)
        /\ last' = Call("delete", key, None, 0, IF fail THEN "delete" ELSE "none",
                        None, r.ok, 0,
                        r.mem # memory_cache \/ r.redis # redis_store)
        /\ UNCHANGED <<redis_client, redis_server, now, nsets, frames, writes>>

DoClear(pattern, fail) ==
    \E r \in {clear_pattern(pattern, fail)} :
        /\ memory_cache' = r.mem
        /\ redis_store' = r.redis
        /\ written' = Held(written, r.mem, r.redis)
        /\ last' = Call("clear_pattern", pattern, None, 0, fail, None, FALSE, r.count,
                        r.mem # memory_cache \/ r.redis # redis_store)
        /\ UNCHANGED <<redis_client, redis_server, now, nsets, frames, writes>>

\* direct calls of the primitives
Get ==
    /\ Continues
    /\ \E key \in {RawKey}, fail \in FailChoices : DoGet(key, fail)

Set ==
    /\ Continues
    /\ \E key \in {RawKey}, data \in Payloads, ttl \in SetTTLs, fail \in FailChoices :
          DoSet(key, data, ttl, fail)

Delete ==
    /\ Continues
    /\ \E key \in Keys, fail \in FailChoices : DoDelete(key, fail)

\* the domain helpers
GetCachedBuildings ==
    /\ Continues
    /\ \E filters \in BuildingFilterInputs, fail \in FailChoices :
          \E key \in {generate_key("buildings", filters)} : DoGet(key, fail)

CacheBuildings ==
    /\ Continues
    /\ \E filters \in BuildingFilterInputs, data \in HelperPayloads, fail \in FailChoices :
          \E key \in {generate_key("buildings", filters)} :
              DoSet(key, data, BuildingsTTL, fail)

GetCachedRooms ==
    /\ Continues
    /\ \E b \in FacilityIds, filters \in RoomFilterInputs, fail \in FailChoices :
          \E key \in {generate_key("rooms", RoomFilters(b, filters))} : DoGet(key, fail)

CacheRooms ==
    /\ Continues
    /\ \E b \in FacilityIds, filters \in RoomFilterInputs, data \in HelperPayloads,
          fail \in FailChoices :
          \E key \in {generate_key("rooms", RoomFilters(b, filters))} :
              DoSet(key, data, RoomsTTL, fail)

GetCachedBookings ==
    /\ Continues
    /\ \E filters \in BookingFilterInputs, fail \in FailChoices :
          \E key \in {generate_key("bookings", filters)} : DoGet(key, fail)

CacheBookings ==
    /\ Continues
    /\ \E filters \in BookingFilterInputs, data \in HelperPayloads,
          ttl \in BookingsTTLInputs, fail \in FailChoices :
          \E key \in {generate_key("bookings", filters)} :
              DoSet(key, data, ttl, fail)

InvalidateBookings ==
    /\ Continues
    /\ \E fail \in ClearFailChoices : DoClear(BookingsPattern, fail)

InvalidateRooms ==
    /\ Continues
    /\ \E b \in FacilityIds \cup {None}, fail \in ClearFailChoices :
          \E pattern \in {RoomsPattern(b)} : DoClear(pattern, fail)

InvalidateBuildings ==
    /\ Continues
    /\ \E fail \in ClearFailChoices : DoClear(BuildingsPattern, fail)

CleanupExpired ==
    /\ Continues
    /\ memory_cache' = Remove(memory_cache, expired_keys)
    /\ written' = Held(written, memory_cache', redis_store)
    /\ last' = Call("cleanup_expired", "", None, 0, "none", None, FALSE,
                    Cardinality(expired_keys), expired_keys # {})
    /\ UNCHANGED <<redis_client, redis_server, redis_store, now, nsets, frames, writes>>

GetStats ==
    /\ Continues
    /\ \E fail \in FailChoices :
          /\ last' = [Call("get_stats", "", None, 0, IF fail THEN "info" ELSE "none",
                           None, FALSE, 0, FALSE)
                          EXCEPT !.stats = get_stats(fail)]
          /\ UNCHANGED <<redis_client, redis_server,
                         memory_cache, redis_store, now, written, nsets,
                         frames, writes>>

\* the clock advances; the Redis server drops the keys whose time has run out
\* The server that was unreachable when the manager was built comes back.  The
\* manager runs no code at that moment.  (While the manager holds a client, an
\* unreachable server is the raising Redis call of each operation.)
ServerRecovers ==
    /\ Continues
    /\ redis_server = "down"
    /\ redis_server' = "up"
    /\ last' = Call("recover", "", None, 0, "none", None, FALSE, 0, FALSE)
    /\ UNCHANGED <<redis_client, memory_cache, redis_store, now, written, nsets,
                   frames, writes>>

Tick ==
    /\ Continues
    /\ \E t \in ClockPoints :
          /\ t > now
          /\ now' = t
          /\ redis_store' = RedisLive(redis_store, t)
          /\ written' = Held(written, memory_cache, redis_store')
          /\ last' = Call("tick", "", None, 0, "none", None, FALSE, 0, FALSE)
          /\ UNCHANGED <<redis_client, redis_server, memory_cache, nsets, frames, writes>>

Next ==
    \/ Get \/ Set \/ Delete
    \/ GetCachedBuildings \/ CacheBuildings
    \/ GetCachedRooms \/ CacheRooms
    \/ GetCachedBookings \/ CacheBookings
    \/ InvalidateBookings \/ InvalidateRooms \/ InvalidateBuildings
    \/ CleanupExpired
    \/ GetStats
    \/ Tick

Spec == Init /\ [][Next]_vars

\* The same manager beside a server that may come back after the constructor
\* found it unreachable.
RecoverNext == Next \/ ServerRecovers

RecoverSpec == Init /\ [][RecoverNext]_vars

(***************************************************************************)
(* Properties.                                                              *)
(***************************************************************************)
\* lifetime asked for by the set call recorded in w
TTLOf(w) == IF w.ttl = 0 THEN default_ttl ELSE w.ttl

\* C1: a get never returns the value of an expired entry: whenever get(key)
\* returns a value, the last set of that key that wrote it was made less than
\* its ttl ago.
GetNeverReturnsExpired ==
    (last.op = "get" /\ last.ret # None)
        => /\ last.key \in DOMAIN written
           /\ now < written[last.key].at + TTLOf(written[last.key])

\* a get found the key's entry expired, removed it and returned Miss
GetOnExpiredWitness ==
    /\ last.op = "get"
    /\ last.changed
    /\ last.ret = None
    /\ last.key \notin DOMAIN memory_cache

\* C2: set(key, value, ttl) with a serializable value and ttl > 0, followed
\* immediately by get(key), returns that value unchanged.
SetThenGetRoundTrip ==
    [][(/\ last.op = "set" /\ Serializable(last.data) /\ last.ttl > 0
        /\ last'.op = "get" /\ last'.key = last.key)
           => last'.ret = last.data]_vars

\* C3: a set of a serializable value whose Redis write fails still returns
\* True and writes the Local entry.
SetSurvivesRemoteFailure ==
    (last.op = "set" /\ Serializable(last.data) /\ last.fail = "setex")
        => /\ last.ok
           /\ last.key \in DOMAIN memory_cache
           /\ memory_cache[last.key].data = last.data

\* C4: when the Redis get raises and Local holds an unexpired entry for the
\* key, get returns the Local value.
GetFallsBackToLocalOnRemoteError ==
    (/\ last.op = "get" /\ last.fail = "get"
     /\ last.key \in DOMAIN memory_cache
     /\ Fresh(memory_cache[last.key], now))
        => last.ret = memory_cache[last.key].data

\* the key get_cached_rooms and cache_rooms derive for a facility
RoomsKeyOf(b, filters) == generate_key("rooms", RoomFilters(b, filters))

\* C5: after invalidate_rooms(f) the rooms entries of facility f are gone:
\* get_cached_rooms(f, filters) returns Miss (stated for an invalidation and
\* a read whose Redis calls all succeed).
InvalidateRoomsRemovesFacility ==
    \A b \in FacilityIds :
        (last.op = "clear_pattern" /\ last.key = RoomsPattern(b) /\ last.fail = "none")
            => \A f \in RoomFilterInputs : get(RoomsKeyOf(b, f), FALSE).ret = None

Namespaces == {"buildings", "rooms", "bookings"}

NamespacePrefix(ns) == Chars("bulib:") \o Chars(ns) \o Chars(":")

NamespacePattern(ns) == Str(NamespacePrefix(ns) \o Chars("*"))

StartsWith(cs, prefix) ==
    /\ Len(cs) >= Len(prefix)
    /\ SubSeq(cs, 1, Len(prefix)) = prefix

\* the keys and patterns that start with "bulib:<namespace>:", tabulated
in_namespace ==
    [k \in Texts, ns \in Namespaces |-> StartsWith(Chars(k), NamespacePrefix(ns))]

InNamespace(k, ns) == in_namespace[k, ns]

\* C6: after invalidate_bookings(), invalidate_rooms() or
\* invalidate_buildings(), get returns Miss for every key of that namespace.
InvalidateClearsNamespace ==
    \A ns \in Namespaces :
        (last.op = "clear_pattern" /\ last.key = NamespacePattern(ns))
            => \A k \in Keys : InNamespace(k, ns) => get(k, FALSE).ret = None

\* C7: an invalidation leaves the entries of every other namespace as they
\* were in both tiers, so get answers for them as it did before.
InvalidateLeavesOtherNamespaces ==
    [][last'.op = "clear_pattern"
          => \A ns \in Namespaces :
                InNamespace(last'.key, ns)
                    => \A k \in HelperKeys :
                          ~InNamespace(k, ns)
                              => /\ (k \in DOMAIN memory_cache
                                       => /\ k \in DOMAIN memory_cache'
                                          /\ memory_cache'[k] = memory_cache[k])
                                 /\ (k \in DOMAIN redis_store
                                       => /\ k \in DOMAIN redis_store'
                                          /\ redis_store'[k] = redis_store[k])
                                 /\ \A f \in FailChoices :
                                       get(k, f).ret' = get(k, f).ret]_vars

\* an invalidation removed entries while a fresh entry of another namespace
\* was cached, and that entry is still there
OtherNamespaceKeptWitness ==
    \E ns \in Namespaces :
        /\ last.op = "clear_pattern"
        /\ InNamespace(last.key, ns)
        /\ last.count >= 1
        /\ \E k \in HelperKeys :
              /\ ~InNamespace(k, ns)
              /\ k \in DOMAIN memory_cache
              /\ Fresh(memory_cache[k], now)

\* C8: a set whose payload cannot be serialised returns False and writes
\* neither tier.
UnserializableSetWritesNothing ==
    [][(last'.op = "set" /\ ~Serializable(last'.data))
          => /\ ~last'.ok
             /\ memory_cache' = memory_cache
             /\ redis_store' = redis_store]_vars

\* a set was called with an unserialisable payload while entries were cached
UnserializableSetWitness ==
    /\ last.op = "set"
    /\ last.data = PSet
    /\ DOMAIN memory_cache # {}

\* C9: clear_pattern returns the number of deletions made in Redis plus the
\* number made in Local, and invalidate_bookings() returns at least 1
\* whenever a bookings entry is cached.
ClearPatternCountsDeletions ==
    [][last'.op = "clear_pattern"
          => /\ last'.count = Cardinality(DOMAIN redis_store \ DOMAIN redis_store')
                              + Cardinality(DOMAIN memory_cache \ DOMAIN memory_cache')
             /\ (/\ last'.key = BookingsPattern
                 /\ \E k \in BookingsKeys :
                       k \in DOMAIN memory_cache \cup DOMAIN redis_store)
                    => last'.count >= 1]_vars

\* the fixed lifetime of the domain a helper key belongs to
DomainLifetime(k) ==
    CASE k \in BuildingsKeys -> BuildingsTTL
      [] k \in RoomsKeys     -> RoomsTTL
      [] k \in BookingsKeys  -> BookingsTTL

\* C10: an entry written by a domain helper with its default ttl is returned
\* by the matching get_cached_* at every time before write time + lifetime
\* (600 s, 300 s, 60 s) and is a Miss from then on.
HelperEntryLivesDomainLifetime ==
    [][(/\ last'.op = "get"
        /\ last'.key \in HelperKeys
        /\ last'.key \in DOMAIN written
        /\ written[last'.key].ttl = DomainLifetime(last'.key))
           => IF now < written[last'.key].at + DomainLifetime(last'.key)
              THEN last'.ret = written[last'.key].data
              ELSE last'.ret = None]_vars

RoomsScopedPerFacility ==
    [][\A b1 \in FacilityIds, b2 \in FacilityIds, f \in RoomFilterInputs :
          (/\ b1 # b2 /\ last.op = "set" /\ last.ok /\ last.key = RoomsKeyOf(b1, f)
           /\ last'.op = "get")
              => /\ last'.key = RoomsKeyOf(b1, f) => last'.ret = last.data
                 /\ (last'.key = RoomsKeyOf(b2, f) /\ last'.ret # None)
                        => RoomsKeyOf(b2, f) \in DOMAIN written]_vars

\* C14: after delete(key) the Local table holds no entry for key, whatever
\* the outcome of the Redis delete, and a delete whose Redis call does not
\* raise returns True whether or not the key was there.
DeleteAlwaysClearsLocal ==
    last.op = "delete"
        => /\ last.key \notin DOMAIN memory_cache
           /\ last.fail = "none" => last.ok

\* C15: a successful set over an existing entry replaces it: the entry then
\* holds the new value and expires ttl after this write, and get returns the
\* new value.
SetReplacesEntry ==
    [][\A k \in Keys, data \in Payloads :
          (/\ last'.op = "set" /\ last'.ok /\ last'.key = k /\ last'.data = data
           /\ k \in DOMAIN memory_cache)
              => /\ memory_cache'[k] =
                       [data |-> data, expires_at |-> now + EffectiveTTL(last'.ttl)]
                 /\ \A f \in FailChoices : get(k, f).ret' = data]_vars

\* C16: get_stats changes no tier and returns a snapshot whose
\* memory_cache_size is the number of entries in the Local table, expired ones
\* included; when the Redis info call raises the snapshot carries the error
\* note and the Local figures all the same.
GetStatsIsSnapshot ==
    [][last'.op = "get_stats"
          => /\ UNCHANGED <<redis_client, redis_server, memory_cache, redis_store>>
             /\ last'.stats.memory_cache_size = Cardinality(DOMAIN memory_cache)
             /\ last'.stats.cache_type = (IF redis_client THEN "redis" ELSE "memory")
             /\ last'.stats.redis_error = (last'.fail = "info")
             /\ last'.stats.redis_connected = (redis_client /\ last'.fail = "none")]_vars

\* get_stats was called while the info call fails and the Local table holds
\* an expired entry, which it counted
GetStatsWitness ==
    /\ last.op = "get_stats"
    /\ last.fail = "info"
    /\ last.stats.redis_error
    /\ last.stats.memory_cache_size >= 1
    /\ \E k \in DOMAIN memory_cache : ~Fresh(memory_cache[k], now)

\* C17: when the Redis key listing or deletion of clear_pattern raises, the
\* Local entries that match the pattern are removed all the same.
ClearRemovesLocalDespiteRemoteError ==
    (last.op = "clear_pattern" /\ last.fail # "none")
        => \A k \in DOMAIN memory_cache : ~substring_match[last.key, k]

\* C21: no way back to Fresh: a get that returns Miss with no Redis error
\* leaves no entry for the key in either tier, and a key that neither tier
\* holds gets an entry again only by a set of that key that returns True.
NoResurrection ==
    [][/\ (last'.op = "get" /\ last'.fail = "none" /\ last'.ret = None)
              => \A k \in Keys :
                    last'.key = k
                        => (k \notin DOMAIN memory_cache' /\ k \notin DOMAIN redis_store')
       /\ \A k \in Keys :
              (/\ k \notin DOMAIN memory_cache /\ k \notin DOMAIN redis_store
               /\ (k \in DOMAIN memory_cache' \/ k \in DOMAIN redis_store'))
                  => (last'.op = "set" /\ last'.key = k /\ last'.ok)]_vars

\* a get found the entry of a key written earlier expired in the Local table
\* of a manager with a Redis client, and evicted it
EvictedWitness ==
    /\ redis_client
    /\ last.op = "get" /\ last.fail = "none" /\ last.ret = None
    /\ last.changed
    /\ nsets >= 1
    /\ last.key \notin DOMAIN memory_cache
    /\ last.key \notin DOMAIN redis_store

\* C23: lazy expiration without a Redis client: a get on an expired entry
\* removes that entry and no other and returns Miss; a get on a fresh entry or
\* on an absent key leaves the Local table as it was.
LazyExpirationLocalOnly ==
    [][\A k \in Keys :
          (~redis_client /\ last'.op = "get" /\ last'.key = k)
              => IF k \in DOMAIN memory_cache /\ memory_cache[k].expires_at <= now
                 THEN /\ last'.ret = None
                      /\ memory_cache' = Remove(memory_cache, {k})
                      /\ Cardinality(DOMAIN memory_cache')
                            = Cardinality(DOMAIN memory_cache) - 1
                 ELSE /\ memory_cache' = memory_cache
                      /\ last'.ret = (IF k \in DOMAIN memory_cache
                                      THEN memory_cache[k].data ELSE None)]_vars

\* without a Redis client, a get evicted an expired entry and left another
\* expired entry in the table
LazyExpirationWitness ==
    /\ ~redis_client
    /\ last.op = "get" /\ last.changed /\ last.ret = None
    /\ \E k \in DOMAIN memory_cache : memory_cache[k].expires_at <= now

\* C24: cleanup_expired removes exactly the Local entries with
\* expires_at <= now, returns how many it removed, and leaves the fresh
\* entries and Redis as they were.
CleanupRemovesExactlyExpired ==
    [][last'.op = "cleanup_expired"
          => /\ DOMAIN memory_cache'
                   = {k \in DOMAIN memory_cache : memory_cache[k].expires_at > now}
             /\ \A k \in DOMAIN memory_cache' : memory_cache'[k] = memory_cache[k]
             /\ \A k \in DOMAIN memory_cache' : memory_cache'[k].expires_at > now'
             /\ last'.count
                   = Cardinality(DOMAIN memory_cache) - Cardinality(DOMAIN memory_cache')
             /\ redis_store' = redis_store
             /\ now' = now]_vars

\* with a Redis client, a sweep removed an expired entry and kept a fresh one
CleanupWitness ==
    /\ redis_client
    /\ last.op = "cleanup_expired"
    /\ last.count >= 1
    /\ \E k \in DOMAIN memory_cache : memory_cache[k].expires_at > now

\* C25: the Local matcher and the Redis glob select the same keys: a
\* clear_pattern that completes deletes a key of the Local table if and only
\* if the pattern, read as a Redis glob, matches the key.
LocalMatcherAgreesWithGlob ==
    [][\A p \in PatternInputs :
          (last'.op = "clear_pattern" /\ last'.key = p /\ last'.fail = "none")
              => \A k \in DOMAIN memory_cache :
                    (k \notin DOMAIN memory_cache') <=> glob_match[p, k]]_vars

\* C26: a manager built without a Redis client (no URL, or the connection
\* failed in the constructor) works on the Local table alone: no call fails
\* for want of Redis or touches Redis; a set of serializable data returns True
\* and a get before the expiry returns that very value; a get from the expiry
\* on is a Miss; delete removes the key; clear_pattern removes the keys that
\* contain the pattern's text and counts them; get_stats reports "memory".
LocalOnlyModeWorks ==
    [][~redis_client
          => /\ ~redis_client'
             /\ redis_store' = EmptyDict
             /\ last'.fail = "none"
             /\ \A k \in Keys :
                   /\ (last'.op = "set" /\ last'.key = k)
                         => /\ last'.ok = Serializable(last'.data)
                            /\ last'.ok
                                  => /\ memory_cache'
                                          = Put(memory_cache, k,
                                                [data |-> last'.data,
                                                 expires_at |->
                                                    now + EffectiveTTL(last'.ttl)])
                                     /\ get(k, FALSE).ret' = last'.data
                   /\ (last'.op = "get" /\ last'.key = k)
                         => last'.ret
                              = (IF k \in DOMAIN memory_cache
                                      /\ now < memory_cache[k].expires_at
                                 THEN memory_cache[k].data ELSE None)
                   /\ (last'.op = "delete" /\ last'.key = k)
                         => /\ memory_cache' = Remove(memory_cache, {k})
                            /\ last'.ok
             /\ \A p \in PatternInputs :
                   (last'.op = "clear_pattern" /\ last'.key = p)
                         => /\ memory_cache'
                                 = Remove(memory_cache,
                                          {k \in DOMAIN memory_cache :
                                              substring_match[p, k]})
                            /\ last'.count
                                 = Cardinality(DOMAIN memory_cache)
                                     - Cardinality(DOMAIN memory_cache')
             /\ last'.op = "get_stats"
                   => /\ last'.stats.cache_type = "memory"
                      /\ ~last'.stats.redis_connected
                      /\ last'.stats.memory_cache_size
                            = Cardinality(DOMAIN memory_cache)]_vars

\* a manager without a Redis client returned, before the expiry, the tuple
\* that a set had stored
LocalOnlyWitness ==
    /\ ~redis_client
    /\ last.op = "get"
    /\ last.ret = PTuple
    /\ now > 0

\* C27: a manager whose connection failed in the constructor reconnects on a
\* later use: a get, set, delete or clear_pattern made while the server is
\* reachable again leaves the manager with a Redis client.
ReconnectsOnLaterUse ==
    [][(/\ ~redis_client
        /\ redis_server = "up"
        /\ last'.op \in {"get", "set", "delete", "clear_pattern"})
          => redis_client']_vars

\* C29: a set called with no ttl, None or 0 (all written 0 here) stores the
\* entry with default_ttl, in the Local table and in Redis; so does a domain
\* helper called with ttl = 0.
ZeroTTLMeansDefault ==
    [][\A k \in Keys :
          (last'.op = "set" /\ last'.key = k /\ last'.ok /\ last'.ttl = 0)
              => /\ k \in DOMAIN memory_cache'
                 /\ memory_cache'[k].expires_at = now + default_ttl
                 /\ redis_client
                       => /\ k \in DOMAIN redis_store'
                          /\ redis_store'[k].expires_at = now + default_ttl]_vars

\* cache_bookings was called with ttl = 0 at a later time than 0 and stored
\* its entry
ZeroTTLHelperWitness ==
    /\ last.op = "set" /\ last.ok /\ last.ttl = 0
    /\ last.key \in BookingsKeys
    /\ now > 0
    /\ memory_cache[last.key].expires_at = now + default_ttl

(***************************************************************************)
(* Key derivation on its own: _generate_key applied to pairs of namespaces  *)
(* and filter mappings.                                                     *)
(***************************************************************************)
KeyItems == {DateItem, FloorItem, MugItem}

\* the mappings of at most MaxItems items, in every insertion order
FilterMappingInputs ==
    UNION {{f \in [1..n -> KeyItems] : \A i, j \in 1..n : i # j => f[i] # f[j]} :
              n \in 0..MaxItems}

\* one derivation per behaviour: a pair of calls to compare
GenerateKey ==
    /\ last.op = "init"
    /\ \E p1 \in Namespaces, p2 \in Namespaces,
          f1 \in FilterMappingInputs, f2 \in FilterMappingInputs :
          /\ last' = [op |-> "_generate_key",
                      prefix |-> <<p1, p2>>,
                      params |-> <<f1, f2>>,
                      key |-> <<generate_key_chars(p1, f1), generate_key_chars(p2, f2)>>]
          /\ UNCHANGED <<redis_client, redis_server,
                         memory_cache, redis_store, now, written, nsets,
                         frames, writes>>

KeySpec == Init /\ [][GenerateKey]_vars

SameContent(f1, f2) == {f1[i] : i \in DOMAIN f1} = {f2[i] : i \in DOMAIN f2}

HexDigits == {"0","1","2","3","4","5","6","7","8","9","a","b","c","d","e","f"}

\* "bulib:<namespace>:<8 hex characters>"
WellFormedKey(key, ns) ==
    LET n == Len(NamespacePrefix(ns)) IN
    /\ Len(key) = n + 8
    /\ SubSeq(key, 1, n) = NamespacePrefix(ns)
    /\ \A i \in (n + 1)..(n + 8) : key[i] \in HexDigits

\* C12: two mappings with the same items give the same key in a namespace
\* whatever their insertion order, every key is bulib:<namespace>:<8 hex>,
\* and keys of different namespaces differ.
KeyDerivationDeterministic ==
    last.op = "_generate_key" =>
        /\ (last.prefix[1] = last.prefix[2] /\ SameContent(last.params[1], last.params[2]))
               => last.key[1] = last.key[2]
        /\ WellFormedKey(last.key[1], last.prefix[1])
        /\ last.prefix[1] # last.prefix[2] => last.key[1] # last.key[2]

\* the same two items inserted in the two orders were given one key
KeyDerivationWitness ==
    /\ last.op = "_generate_key"
    /\ last.prefix[1] = last.prefix[2]
    /\ Len(last.params[1]) = 2
    /\ last.params[1] # last.params[2]
    /\ SameContent(last.params[1], last.params[2])
    /\ last.key[1] = last.key[2]

(***************************************************************************)
(* Concurrent calls.  The server handles each request in a thread of its    *)
(* own and all threads share one CacheManager; the interpreter may switch   *)
(* threads between any two statements of get, set, delete and               *)
(* clear_pattern, and each Redis command is atomic on the server.  A step   *)
(* below is one statement that reads or writes shared state.                *)
(***************************************************************************)
ConcKeys == RoomsKeys
ConcPayloads == {PDict, PList}
ConcTTLs == {BookingsTTL}
ConcPatterns == {AllRoomsPattern}
ConcClockPoints == {0, BookingsTTL}

\* thread t moves to frame f; the Local keys in touched were written or
\* removed by this step
Step(t, f, touched) ==
    frames' = [u \in Threads |->
                  IF u = t THEN f ELSE [frames[u] EXCEPT !.kept = @ \ touched]]

Return(t, touched) == Step(t, IdleFrame, touched)

At(t, op, pc) == frames[t].op = op /\ frames[t].pc = pc

\* the frame of a get that stands before its return statement; data holds the
\* value it returns (entry is still the Local entry it read, if it read one)
Returning(t, value) == [frames[t] EXCEPT !.pc = "ret", !.data = value]

\* a set that updates the fields of an existing Local entry one at a time
store_local_in_place(mem, key, data, ttl) ==
    IF key \in DOMAIN mem
    THEN [mem EXCEPT ![key].data = data]
    ELSE Put(mem, key, [data |-> data, expires_at |-> now + ttl])

\* self.memory_cache[key] = {'data': data, 'expires_at': time.time() + ttl}
store_local(mem, key, data, ttl) ==
    Put(mem, key, [data |-> data, expires_at |-> now + ttl])

\* ---- get ----
BeginGet(t) ==
    /\ At(t, "idle", "idle")
    /\ \E key \in ConcKeys :
          Step(t, [IdleFrame EXCEPT !.op = "get", !.key = key,
                       !.pc = IF redis_client THEN "redis" ELSE "in"], {})
    /\ UNCHANGED <<redis_client, redis_server,
                   memory_cache, redis_store, now, written, nsets, last,
                   writes>>

\* a get that, when Redis has the key, prefers the Local entry if there is one
GetRedisPrefersLocal(t) ==
    /\ At(t, "get", "redis")
    /\ \E fail \in BOOLEAN :
          IF fail
          THEN Step(t, Returning(t, None), {})
          ELSE IF frames[t].key \in DOMAIN RedisLive(redis_store, now)
          THEN Step(t, Returning(t, IF frames[t].key \in DOMAIN memory_cache
                                    THEN memory_cache[frames[t].key].data
                                    ELSE json_loads(redis_store[frames[t].key].data)),
                    {})
          ELSE Step(t, [frames[t] EXCEPT !.pc = "in"], {})
    /\ UNCHANGED <<redis_client, redis_server,
                   memory_cache, redis_store, now, written, nsets, last,
                   writes>>

\* data = self.redis_client.get(key); if data: return json.loads(data)
GetRedis(t) ==
    /\ At(t, "get", "redis")
    /\ \E fail \in BOOLEAN :
          IF fail
          THEN Step(t, Returning(t, None), {})
          ELSE IF frames[t].key \in DOMAIN RedisLive(redis_store, now)
          THEN Step(t, Returning(t, json_loads(redis_store[frames[t].key].data)), {})
          ELSE Step(t, [frames[t] EXCEPT !.pc = "in"], {})
    /\ UNCHANGED <<redis_client, redis_server,
                   memory_cache, redis_store, now, written, nsets, last,
                   writes>>

\* if key in self.memory_cache:
GetIn(t) ==
    /\ At(t, "get", "in")
    /\ IF frames[t].key \in DOMAIN memory_cache
       THEN Step(t, [frames[t] EXCEPT !.pc = "read"], {})
       ELSE Step(t, Returning(t, None), {})
    /\ UNCHANGED <<redis_client, redis_server,
                   memory_cache, redis_store, now, written, nsets, last,
                   writes>>

\* entry = self.memory_cache[key]  (KeyError when the key has gone)
GetRead(t) ==
    /\ At(t, "get", "read")
    /\ IF frames[t].key \in DOMAIN memory_cache
       THEN Step(t, [frames[t] EXCEPT !.pc = "cmp",
                                      !.entry = memory_cache[frames[t].key]], {})
       ELSE Step(t, Returning(t, None), {})
    /\ UNCHANGED <<redis_client, redis_server,
                   memory_cache, redis_store, now, written, nsets, last,
                   writes>>

\* if entry['expires_at'] > time.time(): return entry['data']
GetCompare(t) ==
    /\ At(t, "get", "cmp")
    /\ IF Fresh(frames[t].entry, now)
       THEN Step(t, Returning(t, frames[t].entry.data), {})
       ELSE Step(t, [frames[t] EXCEPT !.pc = "del"], {})
    /\ UNCHANGED <<redis_client, redis_server,
                   memory_cache, redis_store, now, written, nsets, last,
                   writes>>

\* del self.memory_cache[key]; return None  (KeyError when the key has gone)
GetDelete(t) ==
    /\ At(t, "get", "del")
    /\ memory_cache' = Remove(memory_cache, {frames[t].key})
    /\ Step(t, Returning(t, None), {frames[t].key} \cap DOMAIN memory_cache)
    /\ UNCHANGED <<redis_client, redis_server,
                   redis_store, now, written, nsets, last, writes>>

\* return <value>: the call of get ends
GetReturn(t) ==
    /\ At(t, "get", "ret")
    /\ Return(t, {})
    /\ UNCHANGED <<redis_client, redis_server,
                   memory_cache, redis_store, now, written, nsets, last,
                   writes>>

\* ---- set ----
\* ttl = ttl or self.default_ttl; serialized_data = json.dumps(data)
BeginSet(t) ==
    /\ At(t, "idle", "idle")
    /\ nsets < MaxSets
    /\ nsets' = nsets + 1
    /\ \E key \in ConcKeys, data \in ConcPayloads, ttl \in ConcTTLs :
          Step(t, [IdleFrame EXCEPT !.op = "set", !.key = key, !.data = data,
                       !.ttl = EffectiveTTL(ttl),
                       !.pc = IF redis_client THEN "setex" ELSE "store"], {})
    /\ UNCHANGED <<redis_client, redis_server,
                   memory_cache, redis_store, now, written, last, writes>>

\* self.redis_client.setex(key, ttl, serialized_data)
SetRedis(t) ==
    /\ At(t, "set", "setex")
    /\ \E fail \in BOOLEAN :
          IF fail
          THEN /\ Return(t, {})
               /\ UNCHANGED <<redis_store, writes>>
          ELSE /\ redis_store' =
                     Put(redis_store, frames[t].key,
                         [data |-> json_dumps(frames[t].data),
                          expires_at |-> now + frames[t].ttl])
               /\ writes' = writes \cup
                     {[key |-> frames[t].key, data |-> frames[t].data,
                       expires_at |-> now + frames[t].ttl]}
               /\ Step(t, [frames[t] EXCEPT !.pc = "store"], {})
    /\ UNCHANGED <<redis_client, redis_server, memory_cache, now, written, nsets, last>>

\* self.memory_cache[key] = {...}; return True
SetStore(t) ==
    /\ At(t, "set", "store")
    /\ memory_cache' =
          store_local(memory_cache, frames[t].key, frames[t].data, frames[t].ttl)
    /\ writes' = writes \cup
          {[key |-> frames[t].key, data |-> frames[t].data,
            expires_at |-> now + frames[t].ttl]}
    /\ Return(t, {frames[t].key})
    /\ UNCHANGED <<redis_client, redis_server, redis_store, now, written, nsets, last>>

\* ---- delete ----
BeginDelete(t) ==
    /\ At(t, "idle", "idle")
    /\ \E key \in ConcKeys :
          Step(t, [IdleFrame EXCEPT !.op = "delete", !.key = key,
                       !.pc = IF redis_client THEN "rdel" ELSE "in"], {})
    /\ UNCHANGED <<redis_client, redis_server,
                   memory_cache, redis_store, now, written, nsets, last,
                   writes>>

\* self.redis_client.delete(key)
DeleteRedis(t) ==
    /\ At(t, "delete", "rdel")
    /\ \E fail \in BOOLEAN :
          IF fail
          THEN /\ Return(t, {})
               /\ UNCHANGED redis_store
          ELSE /\ redis_store' = Remove(redis_store, {frames[t].key})
               /\ Step(t, [frames[t] EXCEPT !.pc = "in"], {})
    /\ UNCHANGED <<redis_client, redis_server,
                   memory_cache, now, written, nsets, last, writes>>

\* if key in self.memory_cache:
DeleteIn(t) ==
    /\ At(t, "delete", "in")
    /\ IF frames[t].key \in DOMAIN memory_cache
       THEN Step(t, [frames[t] EXCEPT !.pc = "del"], {})
       ELSE Return(t, {})
    /\ UNCHANGED <<redis_client, redis_server,
                   memory_cache, redis_store, now, written, nsets, last,
                   writes>>

\* del self.memory_cache[key]; return True  (KeyError: return False)
DeleteDel(t) ==
    /\ At(t, "delete", "del")
    /\ memory_cache' = Remove(memory_cache, {frames[t].key})
    /\ Return(t, {frames[t].key} \cap DOMAIN memory_cache)
    /\ UNCHANGED <<redis_client, redis_server,
                   redis_store, now, written, nsets, last, writes>>

\* ---- clear_pattern ----
BeginClear(t) ==
    /\ At(t, "idle", "idle")
    /\ \E pattern \in ConcPatterns :
          Step(t, [IdleFrame EXCEPT !.op = "clear_pattern", !.key = pattern,
                       !.pc = IF redis_client THEN "keys" ELSE "iter"], {})
    /\ UNCHANGED <<redis_client, redis_server,
                   memory_cache, redis_store, now, written, nsets, last,
                   writes>>

\* keys = self.redis_client.keys(pattern); if keys:
ClearKeys(t) ==
    /\ At(t, "clear_pattern", "keys")
    /\ \E fail \in BOOLEAN :
          IF fail
          THEN Return(t, {})
          ELSE LET keys == redis_keys(frames[t].key) IN
               Step(t, [frames[t] EXCEPT !.todo = keys,
                            !.pc = IF keys = {} THEN "iter" ELSE "rdel"], {})
    /\ UNCHANGED <<redis_client, redis_server,
                   memory_cache, redis_store, now, written, nsets, last,
                   writes>>

\* deleted_count += self.redis_client.delete(*keys)
ClearRedisDelete(t) ==
    /\ At(t, "clear_pattern", "rdel")
    /\ \E fail \in BOOLEAN :
          IF fail
          THEN /\ Return(t, {})
               /\ UNCHANGED redis_store
          ELSE /\ redis_store' = Remove(redis_store, frames[t].todo)
               /\ Step(t, [frames[t] EXCEPT
                              !.count = Cardinality(frames[t].todo
                                           \cap DOMAIN RedisLive(redis_store, now)),
                              !.todo = {}, !.pc = "iter"], {})
    /\ UNCHANGED <<redis_client, redis_server,
                   memory_cache, now, written, nsets, last, writes>>

\* the list comprehension starts to iterate self.memory_cache.keys(); over an
\* empty dictionary it ends at once with an empty list
ClearIter(t) ==
    /\ At(t, "clear_pattern", "iter")
    /\ IF DOMAIN memory_cache = {}
       THEN Step(t, [frames[t] EXCEPT !.pc = "del"], {})
       ELSE Step(t, [frames[t] EXCEPT !.size = Cardinality(DOMAIN memory_cache),
                                      !.pc = "list"], {})
    /\ UNCHANGED <<redis_client, redis_server,
                   memory_cache, redis_store, now, written, nsets, last,
                   writes>>

\* the iteration ends: RuntimeError (dictionary changed size during
\* iteration) when another thread has added or removed a key meanwhile,
\* else memory_keys_to_delete is the list of the matching keys
ClearList(t) ==
    /\ At(t, "clear_pattern", "list")
    /\ IF Cardinality(DOMAIN memory_cache) # frames[t].size
       THEN Return(t, {})
       ELSE LET keys == memory_keys_to_delete(frames[t].key) IN
            Step(t, [frames[t] EXCEPT !.todo = keys, !.kept = keys, !.pc = "del"], {})
    /\ UNCHANGED <<redis_client, redis_server,
                   memory_cache, redis_store, now, written, nsets, last,
                   writes>>

\* for key in memory_keys_to_delete: del self.memory_cache[key];
\* deleted_count += 1  (KeyError: return 0); after the loop return the count
ClearDel(t) ==
    /\ At(t, "clear_pattern", "del")
    /\ IF frames[t].todo = {}
       THEN /\ Return(t, {})
            /\ UNCHANGED memory_cache
       ELSE \E key \in frames[t].todo :
               IF key \in DOMAIN memory_cache
               THEN /\ memory_cache' = Remove(memory_cache, {key})
                    /\ Step(t, [frames[t] EXCEPT !.todo = @ \ {key},
                                                 !.count = @ + 1], {key})
               ELSE /\ Return(t, {})
                    /\ UNCHANGED memory_cache
    /\ UNCHANGED <<redis_client, redis_server,
                   redis_store, now, written, nsets, last, writes>>

\* the clock advances; the Redis server drops the keys whose time has run out
ConcTick ==
    /\ \E t \in ConcClockPoints :
          /\ t > now
          /\ now' = t
          /\ redis_store' = RedisLive(redis_store, t)
    /\ UNCHANGED <<redis_client, redis_server,
                   memory_cache, written, nsets, last, frames, writes>>

ConcNext ==
    \/ \E t \in Threads :
          \/ BeginGet(t) \/ GetRedis(t) \/ GetIn(t) \/ GetRead(t)
          \/ GetCompare(t) \/ GetDelete(t) \/ GetReturn(t)
          \/ BeginSet(t) \/ SetRedis(t) \/ SetStore(t)
          \/ BeginDelete(t) \/ DeleteRedis(t) \/ DeleteIn(t) \/ DeleteDel(t)
          \/ BeginClear(t) \/ ClearKeys(t) \/ ClearRedisDelete(t)
          \/ ClearIter(t) \/ ClearList(t) \/ ClearDel(t)
    \/ ConcTick

ConcSpec == Init /\ [][ConcNext]_vars

\* C18: a get never evicts a fresh entry: the step on which a get(k) comes to
\* its return statement never turns a key that a read would find into one
\* that a read misses.
GetNeverEvictsFresh ==
    [][\A t \in Threads, k \in ConcKeys :
          (/\ frames[t].op = "get" /\ frames[t].key = k
           /\ frames[t].pc # "ret" /\ frames'[t].pc = "ret")
              => (get(k, FALSE).ret # None => get(k, FALSE).ret' # None)]_vars

\* C19: a clear_pattern that has reached the Local table returns only after
\* its loop has gone through every key it listed, and by then no listed key
\* that the other threads left alone is still in the table.
ClearSurvivesConcurrentRemoval ==
    [][\A t \in Threads :
          (/\ frames[t].op = "clear_pattern"
           /\ frames[t].pc \in {"list", "del"}
           /\ frames'[t].op = "idle")
              => /\ frames[t].pc = "del"
                 /\ frames[t].todo = {}
                 /\ frames[t].kept \cap DOMAIN memory_cache' = {}]_vars

EntryOf(k, e) == [key |-> k, data |-> e.data, expires_at |-> e.expires_at]

\* C20: every entry a get holds or can read is the value and the expiry of one
\* single set call, never the value of one write with the expiry of another.
ReaderSeesWholeEntry ==
    /\ \A k \in DOMAIN memory_cache : EntryOf(k, memory_cache[k]) \in writes
    /\ \A k \in DOMAIN redis_store :
          \E w \in writes :
              /\ w.key = k
              /\ json_dumps(w.data) = redis_store[k].data
              /\ w.expires_at = redis_store[k].expires_at
    /\ \A t \in Threads :
          (frames[t].op = "get" /\ frames[t].pc \in {"cmp", "del"})
              => EntryOf(frames[t].key, frames[t].entry) \in writes

\* a get has read the entry of a key and, before it compares the expiry,
\* another thread has replaced that entry by one with another value and expiry
ReaderOvertakenWitness ==
    \E t \in Threads :
        /\ At(t, "get", "cmp")
        /\ frames[t].key \in DOMAIN memory_cache
        /\ memory_cache[frames[t].key].data # frames[t].entry.data
        /\ memory_cache[frames[t].key].expires_at # frames[t].entry.expires_at


\* C22: get tries Redis first.  When Redis holds a live value for the key,
\* the Redis step of a get goes straight to the return statement with that
\* value (None if the Redis call raises), without having read the Local table
\* and leaving it as it is, whatever the Local table holds for the key; a get
\* comes to the Local lookup only without a client or after a Redis miss.
GetTriesRedisFirst ==
    [][\A t \in Threads :
          /\ (/\ At(t, "get", "redis")
              /\ frames'[t] # frames[t]
              /\ frames[t].key \in DOMAIN RedisLive(redis_store, now))
                => /\ frames'[t].pc = "ret"
                   /\ frames'[t].entry = NoEntry
                   /\ frames'[t].data
                        \in {json_loads(redis_store[frames[t].key].data), None}
                   /\ memory_cache' = memory_cache
          /\ (frames[t].pc # "in" /\ frames'[t].op = "get" /\ frames'[t].pc = "in")
                => \/ ~redis_client
                   \/ frames'[t].key \notin DOMAIN RedisLive(redis_store, now)]_vars

\* a get stands before the return of the value it took from Redis while the
\* Local table holds, for the same key, an expired entry with another value
RedisFirstWitness ==
    \E t \in Threads :
        /\ redis_client
        /\ At(t, "get", "ret")
        /\ frames[t].entry = NoEntry
        /\ frames[t].data # None
        /\ frames[t].key \in DOMAIN RedisLive(redis_store, now)
        /\ frames[t].data = json_loads(redis_store[frames[t].key].data)
        /\ frames[t].key \in DOMAIN memory_cache
        /\ memory_cache[frames[t].key].data # frames[t].data
        /\ memory_cache[frames[t].key].expires_at <= now

(***************************************************************************)
(* The helpers seen from a caller that keeps its filter mapping and passes *)
(* the same mapping object to one helper after another.  last.given is     *)
(* the mapping as the caller built it, last.filters the content of that    *)
(* object after the call, last.built the key under which cache_buildings   *)
(* stored.  Keys are kept as text here.                                    *)
(***************************************************************************)
CallerFacilityIds == {"mug"}

CallerFilterInputs ==
    {f \in FilterMappingInputs : \A i \in DOMAIN f : f[i][1] # "building_id"}

\* 'filters = filters or {}' binds a new dictionary when the caller's is empty
\* (or None) and the caller's own dictionary otherwise; the item assignment
\* that follows writes into whichever it is.  The caller's object afterwards:
caller_filters_after(building_id, filters) ==
    IF filters = <<>> THEN filters ELSE RoomFilters(building_id, filters)

CallerCall(op, given, filters, built, key, ret, ok, fail) ==
    [op |-> op, given |-> given, filters |-> filters, built |-> built, key |-> key,
     ret |-> ret, ok |-> ok, fail |-> fail]

CallerHolds == last.op \in {"cache_buildings", "get_cached_rooms", "cache_rooms"}

\* cache_buildings(data, filters) with a mapping the caller has just built
CallerCacheBuildings ==
    /\ last.op = "init"
    /\ \E filters \in CallerFilterInputs, data \in HelperPayloads, fail \in FailChoices :
          \E key \in {generate_key_chars("buildings", filters)} :
              \E r \in {set(key, data, BuildingsTTL, fail)} :
                  /\ memory_cache' = r.mem
                  /\ redis_store' = r.redis
                  /\ last' = CallerCall("cache_buildings", filters, filters, key, key,
                                        None, r.ok, fail)
    /\ UNCHANGED <<redis_client, redis_server, now, written, nsets, frames, writes>>

\* get_cached_rooms(building_id, filters) with the caller's mapping
CallerGetCachedRooms ==
    /\ CallerHolds
    /\ \E b \in CallerFacilityIds, fail \in FailChoices :
          \E key \in {generate_key_chars("rooms", RoomFilters(b, last.filters))} :
              \E r \in {get(key, fail)} :
                  /\ memory_cache' = r.mem
                  /\ last' = CallerCall("get_cached_rooms", last.given,
                                        caller_filters_after(b, last.filters),
                                        last.built, key, r.ret, FALSE, fail)
    /\ UNCHANGED <<redis_client, redis_server, redis_store, now, written, nsets,
                   frames, writes>>

\* cache_rooms(building_id, data, filters) with the caller's mapping
CallerCacheRooms ==
    /\ CallerHolds
    /\ nsets < MaxSets
    /\ \E b \in CallerFacilityIds, data \in HelperPayloads, fail \in FailChoices :
          \E key \in {generate_key_chars("rooms", RoomFilters(b, last.filters))} :
              \E r \in {set(key, data, RoomsTTL, fail)} :
                  /\ memory_cache' = r.mem
                  /\ redis_store' = r.redis
                  /\ nsets' = nsets + 1
                  /\ last' = CallerCall("cache_rooms", last.given,
                                        caller_filters_after(b, last.filters),
                                        last.built, key, None, r.ok, fail)
    /\ UNCHANGED <<redis_client, redis_server, now, written, frames, writes>>

\* get_cached_buildings(filters) with the caller's mapping, at the end
CallerGetCachedBuildings ==
    /\ CallerHolds
    /\ \E fail \in FailChoices :
          \E key \in {generate_key_chars("buildings", last.filters)} :
              \E r \in {get(key, fail)} :
                  /\ memory_cache' = r.mem
                  /\ last' = CallerCall("get_cached_buildings", last.given, last.filters,
                                        last.built, key, r.ret, FALSE, fail)
    /\ UNCHANGED <<redis_client, redis_server, redis_store, now, written, nsets,
                   frames, writes>>

CallerNext ==
    \/ CallerCacheBuildings
    \/ CallerGetCachedRooms
    \/ CallerCacheRooms
    \/ CallerGetCachedBuildings

CallerSpec == Init /\ [][CallerNext]_vars

\* C28: the rooms helpers leave the caller's filter mapping with the content
\* it had, so a get_cached_buildings with the same mapping derives the key
\* under which cache_buildings stored and, with no Redis error and no time
\* passed, hits.
HelpersLeaveCallerFilters ==
    /\ last.op \in {"get_cached_rooms", "cache_rooms"}
          => SameContent(last.filters, last.given)
    /\ (/\ last.op = "get_cached_buildings"
        /\ ~last.fail
        /\ last.built \in DOMAIN memory_cache)
          => (last.key = last.built /\ last.ret # None)

====
